---- MODULE Spec2Model ----
(***************************************************************************)
(* Model of streaming_matching.py: the budgeted multi-pass streaming       *)
(* matching (streaming_matching), the in-core optimum                      *)
(* (compute_optimal_matching) and the accuracy ratio (get_acc).            *)
(*                                                                         *)
(* An edge is a pair <<u, v>> with u < v, as read_edges yields it.  The     *)
(* matching solver nx.max_weight_matching(G, maxcardinality=True) is a      *)
(* library call: it is modelled by its contract, a nondeterministic choice  *)
(* among the maximum-cardinality matchings of G.                            *)
(***************************************************************************)
EXTENDS Integers, Sequences, FiniteSets, TLC

\* ------------------------------------------------------------------ bounds
NV == 4
MaxLen == 3
MaxBudget == 3
MaxPasses == 3

Verts == 1..NV
Edges == {e \in Verts \X Verts : e[1] < e[2]}

RECURSIVE SeqsUpTo(_, _)
SeqsUpTo(S, n) ==
  IF n = 0 THEN {<<>>}
  ELSE LET shorter == SeqsUpTo(S, n - 1)
       IN  shorter \cup {Append(s, x) : s \in {t \in shorter : Len(t) = n - 1}, x \in S}

EdgeLists == SeqsUpTo(Edges, MaxLen)

\* ------------------------------------------------------- python primitives
Min(a, b) == IF a < b THEN a ELSE b
Max(a, b) == IF a > b THEN a ELSE b

\* s[lo:hi] for 0 <= lo: the elements at 0-based positions lo .. hi-1,
\* clamped to the end of s.
PySlice(s, lo, hi) == SubSeq(s, lo + 1, Min(hi, Len(s)))

\* list(range(start, stop, step)) for step >= 1.
RECURSIVE PyRange(_, _, _)
PyRange(start, stop, step) ==
  IF start >= stop THEN <<>>
  ELSE <<start>> \o PyRange(start + step, stop, step)

\* set(seq)
ToSet(s) == {s[i] : i \in 1..Len(s)}

\* the orders random.shuffle(s) can leave s in
Perms(s) == {[i \in 1..Len(s) |-> s[p[i]]] : p \in Permutations(1..Len(s))}

\* --------------------------------------------------------- matching solver
Touch(e, f) == {e[1], e[2]} \cap {f[1], f[2]} # {}
IsMatching(S) == \A e \in S : \A f \in S : e # f => ~Touch(e, f)
Matchings(G) == {S \in SUBSET G : IsMatching(S)}

\* the values nx.max_weight_matching(G, maxcardinality=True) may return
MaxMatchings(G) ==
  {S \in Matchings(G) : \A T \in Matchings(G) : Cardinality(T) <= Cardinality(S)}

\* len(M), len(new_match), len(M_opt)
Size(m) == Cardinality(m)

\* ---------------------------------------------------------- window planner
StepCeil(budget) == Max(1, (budget + 1) \div 2)

Step(budget) == Max(1, budget \div 2)

Stride(budget, overlap) == IF overlap THEN Step(budget) ELSE budget

Windows(edges, budget, overlap) ==
  LET starts == PyRange(0, Len(edges), Stride(budget, overlap))
  IN  [k \in 1..Len(starts) |-> PySlice(edges, starts[k], starts[k] + budget)]

ShuffledAlways(edges, shuffle) == Perms(edges)

Shuffled(edges, shuffle) == IF shuffle THEN Perms(edges) ELSE {edges}

\* ------------------------------------------------------------------- state
VARIABLES
  mmfile,      \* the edge list read_edges(mmfile) yields
  budget, max_passes, shuffle, overlap,   \* arguments
  pc,          \* position in get_acc / streaming_matching
  opt,         \* compute_optimal_matching's result
  edges, windows, M, pass_num, improved,
  widx,        \* 1-based position of the window loop in windows
  avail, block, G,
  calls,       \* solver invocations made by the current run
  log,         \* the "Augmented: a -> b" lines printed, <<pass_num, a, b>>
  alg, acc,
  memo,        \* the solver's answers so far, <<M, block, new_match>>
  consistent,  \* the solver has answered equal queries equally so far
  rerun, lastM, lastAlg  \* a second get_acc on the same arguments

args == <<mmfile, budget, max_passes, shuffle, overlap>>
locals == <<edges, windows, M, pass_num, improved, widx, avail, block, G>>
oracle == <<memo, consistent>>
prev == <<rerun, lastM, lastAlg>>
vars == <<args, pc, opt, locals, calls, log, alg, acc, oracle, prev>>

NoAcc == [kind |-> "none"]

Init ==
  /\ mmfile \in EdgeLists
  /\ budget \in 1..MaxBudget
  /\ max_passes \in 1..MaxPasses
  /\ shuffle \in BOOLEAN
  /\ overlap \in BOOLEAN
  /\ pc = "get_acc"
  /\ opt = 0
  /\ edges = <<>> /\ windows = <<>> /\ M = {} /\ pass_num = 0
  /\ improved = FALSE /\ widx = 0 /\ avail = 0 /\ block = <<>> /\ G = {}
  /\ calls = 0 /\ log = <<>> /\ alg = 0 /\ acc = NoAcc
  /\ memo = {} /\ consistent = TRUE
  /\ rerun = FALSE /\ lastM = {} /\ lastAlg = 0

\* ----------------------------------------------------------------- actions
\* compute_optimal_matching
ComputeOptimal ==
  /\ pc = "get_acc"
  /\ \E M_opt \in MaxMatchings(ToSet(mmfile)) : opt' = Size(M_opt)
  /\ pc' = "start"
  /\ UNCHANGED <<args, locals, calls, log, alg, acc, oracle, prev>>

\* streaming_matching up to the pass loop
Start ==
  /\ pc = "start"
  /\ edges' \in Shuffled(mmfile, shuffle)
  /\ windows' = Windows(edges', budget, overlap)
  /\ M' = {}
  /\ pc' = "pass"
  /\ UNCHANGED <<args, opt, pass_num, improved, widx, avail, block, G,
                 calls, log, alg, acc, oracle, prev>>

\* for pass_num in range(1, max_passes + 1): the next pass begins
PassBegin ==
  /\ pc = "pass"
  /\ pass_num < max_passes
  /\ pass_num' = pass_num + 1
  /\ improved' = FALSE
  /\ widx' = 1
  /\ pc' = "window"
  /\ UNCHANGED <<args, opt, edges, windows, M, avail, block, G,
                 calls, log, alg, acc, oracle, prev>>

\* the pass loop is exhausted
PassesDone ==
  /\ pc = "pass"
  /\ pass_num >= max_passes
  /\ pc' = "return"
  /\ UNCHANGED <<args, opt, locals, calls, log, alg, acc, oracle, prev>>

Avail(b, m) == b - Size(m)

BudgetFullStrict(a) == a < 0

BudgetFull(a) == a <= 0

BlockWhole(window, a) == window

Block(window, a) == PySlice(window, 0, a)

Candidate(m, blk) == m \cup ToSet(blk)

AcceptsEqual(new_match, m) == Cardinality(new_match) >= Cardinality(m)

Accepts(new_match, m) == Size(new_match) > Size(m)

NextWindowRetry(i, augmented) == IF augmented THEN i ELSE i + 1

\* for window in windows: the loop moves on to the next window
NextWindow(i, augmented) == i + 1

\* one window: the block, the solver call and the augmentation rule
WindowStep ==
  /\ pc = "window"
  /\ widx <= Len(windows)
  /\ avail' = Avail(budget, M)
  /\ ~BudgetFull(avail')
  /\ block' = Block(windows[widx], avail')
  /\ G' = Candidate(M, block')
  /\ \E new_match \in MaxMatchings(G') :
       /\ IF Accepts(new_match, M)
            THEN /\ log' = Append(log, <<pass_num, Size(M), Size(new_match)>>)
                 /\ M' = new_match
                 /\ improved' = TRUE
            ELSE UNCHANGED <<M, improved, log>>
       /\ consistent' =
            (consistent /\ \A t \in memo : (t[1] = M /\ t[2] = block') => t[3] = new_match)
       /\ memo' = memo \cup {<<M, block', new_match>>}
       /\ widx' = NextWindow(widx, Accepts(new_match, M))
  /\ calls' = calls + 1
  /\ UNCHANGED <<args, pc, opt, edges, windows, pass_num, alg, acc, prev>>

\* avail <= 0: break out of the window loop
WindowBreak ==
  /\ pc = "window"
  /\ widx <= Len(windows)
  /\ avail' = Avail(budget, M)
  /\ BudgetFull(avail')
  /\ pc' = "endpass"
  /\ UNCHANGED <<args, opt, edges, windows, M, pass_num, improved, widx, block, G,
                 calls, log, alg, acc, oracle, prev>>

\* the window loop is exhausted
WindowsDone ==
  /\ pc = "window"
  /\ widx > Len(windows)
  /\ pc' = "endpass"
  /\ UNCHANGED <<args, opt, locals, calls, log, alg, acc, oracle, prev>>

ReshufflesAnyMode(s, o) == s

Reshuffles(s, o) == s /\ ~o

EndPassNoBreak ==
  /\ pc = "endpass"
  /\ ~improved
  /\ pc' = "pass"
  /\ UNCHANGED <<args, opt, locals, calls, log, alg, acc, oracle, prev>>

\* if not improved: break
EndPassBreak ==
  /\ pc = "endpass"
  /\ ~improved
  /\ pc' = "return"
  /\ UNCHANGED <<args, opt, locals, calls, log, alg, acc, oracle, prev>>

\* improved: reshuffle and rebuild the windows if asked, then loop
EndPassContinue ==
  /\ pc = "endpass"
  /\ improved
  /\ IF Reshuffles(shuffle, overlap)
       THEN /\ edges' \in Perms(edges)
            /\ windows' = Windows(edges', budget, FALSE)
       ELSE UNCHANGED <<edges, windows>>
  /\ pc' = "pass"
  /\ UNCHANGED <<args, opt, M, pass_num, improved, widx, avail, block, G,
                 calls, log, alg, acc, oracle, prev>>

AlgOfMateMap(m) == 2 * Cardinality(m)

\* alg = len(M)
Alg(m) == Cardinality(m)

\* alg = len(M); return alg
Return ==
  /\ pc = "return"
  /\ alg' = Alg(M)
  /\ pc' = "acc"
  /\ UNCHANGED <<args, opt, locals, calls, log, acc, oracle, prev>>

AccuracyZero(a, o) ==
  IF o > 0 THEN [kind |-> "quotient", num |-> a, den |-> o]
  ELSE [kind |-> "policy", num |-> 0, den |-> 1]

Accuracy(a, o) ==
  IF o > 0 THEN [kind |-> "quotient", num |-> a, den |-> o]
  ELSE [kind |-> "policy", num |-> 1, den |-> 1]

\* acc = alg / opt if opt > 0 else 1.0
GetAcc ==
  /\ pc = "acc"
  /\ acc' = Accuracy(alg, opt)
  /\ pc' = "done"
  /\ UNCHANGED <<args, opt, locals, calls, log, alg, oracle, prev>>

\* get_acc is called once more with the same arguments
Rerun ==
  /\ pc = "done"
  /\ ~rerun
  /\ rerun' = TRUE
  /\ lastM' = M
  /\ lastAlg' = alg
  /\ pc' = "get_acc"
  /\ opt' = 0
  /\ edges' = <<>> /\ windows' = <<>> /\ M' = {} /\ pass_num' = 0
  /\ improved' = FALSE /\ widx' = 0 /\ avail' = 0 /\ block' = <<>> /\ G' = {}
  /\ calls' = 0 /\ log' = <<>> /\ alg' = 0 /\ acc' = NoAcc
  /\ UNCHANGED <<args, oracle>>

Next ==
  \/ ComputeOptimal
  \/ Start
  \/ PassBegin
  \/ PassesDone
  \/ WindowStep
  \/ WindowBreak
  \/ WindowsDone
  \/ EndPassBreak
  \/ EndPassContinue
  \/ Return
  \/ GetAcc

Spec == Init /\ [][Next]_vars

FairSpec == Spec /\ WF_vars(Next)

NextRepeat == Next \/ Rerun

\* repeated runs without shuffling
InitRepeat == Init /\ shuffle = FALSE

SpecRepeat == InitRepeat /\ [][NextRepeat]_vars

\* ------------------------------------------------------------------ claims
Running == pc \notin {"get_acc", "start"}

\* C1: |M| <= budget in every state, and at every solver invocation the
\* candidate graph has at most budget edges: |M| + |block| <= budget.
BudgetInvariant ==
  /\ [](Cardinality(M) <= budget)
  /\ [][calls' = calls + 1 =>
          /\ Cardinality(M) + Len(block') <= budget
          /\ Cardinality(G') <= budget]_vars

\* a solver call whose block was cut short of its window by avail
BudgetWitness ==
  /\ pc = "window" /\ widx > 1 /\ calls > 0
  /\ Len(block) < Len(windows[widx - 1])
  /\ Cardinality(G) = budget

\* C2: the returned alg never exceeds opt.
Domination == pc \in {"acc", "done"} => alg <= opt

DominationWitness == pc = "done" /\ 0 < alg /\ alg < opt

\* C3: |M| never decreases; a window step leaves M (and improved) as it was,
\* or replaces M by a strictly larger candidate matching and sets improved.
Monotone ==
  [][\/ M' = M /\ (pc = "window" => improved' = improved)
     \/ /\ pc = "window"
        /\ Cardinality(M') > Cardinality(M)
        /\ M' \in MaxMatchings(G')
        /\ improved']_vars

\* after an augmentation, a solver call on a non-empty block left M as it was
MonotoneWitness ==
  /\ M # {}
  /\ \E t \in memo : t[1] = M /\ t[2] # <<>> /\ t[3] # M

\* C4 as stated: without shuffling, a repeated run returns the same M and alg
\* whichever maximum matchings the solver returns.
Determinism ==
  (rerun /\ pc = "done" /\ ~shuffle) => (M = lastM /\ alg = lastAlg)

\* C4 amended: without shuffling, a repeated run returns the same M and alg
\* provided the solver answers equal queries (same M, same block) equally.
DeterminismFunctionalSolver ==
  (rerun /\ pc = "done" /\ ~shuffle /\ consistent) => (M = lastM /\ alg = lastAlg)

\* a repeated run, the solver consistent, on a query with several answers
DeterminismWitness ==
  /\ rerun /\ pc = "done" /\ ~shuffle /\ consistent
  /\ calls >= 2
  /\ \E t \in memo : Cardinality(MaxMatchings(Candidate(t[1], t[2]))) >= 2

FirstPassReachedOpt == \E i \in 1..Len(log) : log[i][1] = 1 /\ log[i][3] = opt

\* C5: a pass follows another only if that one augmented M and passes remain;
\* a pass without augmentation ends the run; if pass 1 reaches the optimum
\* the run has at most 2 passes.
EarlyConvergence ==
  [][/\ (pass_num' = pass_num + 1 /\ pass_num >= 1) =>
          /\ improved
          /\ \E i \in 1..Len(log) : log[i][1] = pass_num
          /\ pass_num < max_passes
     /\ (pc = "endpass" /\ ~improved) => (pc' = "return" /\ pass_num' = pass_num)
     /\ (pc = "return") => pass_num' = pass_num
     /\ (Running /\ FirstPassReachedOpt) => pass_num' <= 2]_vars

\* pass 1 reached the optimum: the run ended after pass 2 though a third remained
EarlyConvergenceWitness ==
  pc = "done" /\ FirstPassReachedOpt /\ pass_num = 2 /\ max_passes = 3

CallBound ==
  /\ pass_num <= max_passes
  /\ calls <= max_passes * Len(windows)
  /\ pc \in {"window", "endpass"} =>
       calls <= (pass_num - 1) * Len(windows) + Min(widx - 1, Len(windows))

\* C6: every run terminates, within max_passes passes and at most one solver
\* call per window and pass.
Termination == []CallBound /\ <>(pc = "done")

TerminationWitness ==
  pc = "done" /\ Len(windows) >= 2 /\ calls = max_passes * Len(windows)

CeilDiv(n, d) == (n + d - 1) \div d

RECURSIVE Flatten(_)
Flatten(w) == IF w = <<>> THEN <<>> ELSE Head(w) \o Flatten(Tail(w))

Count(s, x) == Cardinality({i \in 1..Len(s) : s[i] = x})

\* w cuts a permutation of src into consecutive chunks of b, the last shorter
ChunkPartition(w, src, b) ==
  /\ \A x \in Edges : Count(Flatten(w), x) = Count(src, x)
  /\ \A k \in 1..Len(w) :
       /\ Len(w[k]) >= 1
       /\ k < Len(w) => Len(w[k]) = b
       /\ Len(w[k]) <= b

\* C8: the windows stay as they are from pass to pass when overlap or not
\* shuffle; only with shuffle and not overlap are edges re-permuted and the
\* windows rebuilt, at the end of a pass, again into chunks of budget.
ShuffleAsymmetry ==
  [][Running =>
       /\ (overlap \/ ~shuffle) => (windows' = windows /\ edges' = edges)
       /\ (windows' # windows \/ edges' # edges) =>
            /\ shuffle /\ ~overlap
            /\ pc = "endpass" /\ improved
            /\ windows' = Windows(edges', budget, FALSE)
       /\ (shuffle /\ ~overlap /\ pc = "endpass" /\ improved) =>
            /\ edges' \in Perms(edges)
            /\ ChunkPartition(windows', mmfile, budget)]_vars

\* the first window of pass 1 is no longer the first window
ShuffleWitness ==
  /\ shuffle /\ ~overlap /\ pc = "pass" /\ pass_num >= 1
  /\ Len(windows) >= 2
  /\ \E t \in memo : t[1] = {} /\ t[2] # windows[1]

\* C9: with avail <= 0 the window loop stops without a solver call and M as
\* it was, and the end-of-pass check decides: another pass starts iff the
\* pass augmented M and passes remain.  Once |M| = budget no solver call
\* happens.
BudgetExhaustion ==
  [][/\ (pc = "window" /\ widx <= Len(windows) /\ budget - Cardinality(M) <= 0) =>
          /\ pc' = "endpass"
          /\ M' = M /\ calls' = calls /\ improved' = improved /\ widx' = widx
     /\ calls' # calls => (pc = "window" /\ Cardinality(M) < budget)
     /\ pc = "endpass" => (pc' = IF improved THEN "pass" ELSE "return")
     /\ pc = "pass" => (pc' = IF pass_num < max_passes THEN "window" ELSE "return")
     /\ pc = "pass" => pass_num' = (IF pass_num < max_passes THEN pass_num + 1 ELSE pass_num)
    ]_vars

\* pass 1 stopped on a full budget before its last window and pass 2 began
BudgetExhaustionWitness ==
  /\ pass_num = 2 /\ pc = "endpass"
  /\ Cardinality(M) = budget
  /\ calls < Len(windows)

\* C10: with budget >= the number of edges, alg = opt and the accuracy is 1;
\* for no edges alg = opt = 0 and the accuracy is 1.0 by policy.
Degenerate ==
  (pc = "done" /\ budget >= Len(mmfile) /\ max_passes >= 1) =>
    /\ alg = opt
    /\ acc.num = acc.den
    /\ Len(mmfile) = 0 => (alg = 0 /\ opt = 0 /\ acc.kind = "policy")
    /\ Len(mmfile) > 0 => acc.kind = "quotient"

DegenerateWitness ==
  /\ pc = "done" /\ budget = Len(mmfile) /\ shuffle /\ overlap
  /\ opt = 2 /\ acc.kind = "quotient"
====
